---------------------------- MODULE Spec2Model ----------------------------
(***************************************************************************)
(* Pool-Pi serial protocol core (src/src/pool-pi.py): the byte framer      *)
(* (readSerialBus), the frame validator and dispatcher (parseBuffer), the  *)
(* command handshake (checkCommand, getCommand), the notifier (sendModel)  *)
(* and the cycle that runs them in order (main).                           *)
(*                                                                         *)
(* SerialHandler, CommandHandler, PoolModel, confirmChecksum and the       *)
(* payload decoders live in modules that pool-pi.py imports (commands,     *)
(* model, parsing); they are modelled from the specification.              *)
(***************************************************************************)
EXTENDS Integers, Sequences, FiniteSets, TLC

(***************************************************************************)
(* Bounds of the model.                                                    *)
(***************************************************************************)
\* Attempt budget N of a confirmation-required command.
MAX_SEND_ATTEMPTS == 2
\* Longest payload of the stuffing round trip.
MaxLen == 4
\* Longest garbage tail that follows the well-formed frame on the stream.
MaxGarbage == 5

(***************************************************************************)
(* Protocol constants.                                                     *)
(***************************************************************************)
DLE == 16
STX == 2
ETX == 3
\* The escape byte that follows a literal DLE inside a frame.
NUL == 0
\* read() on a transport with no byte available returns no data (b"").
NoData == -1

FRAME_TYPE_KEEPALIVE == <<75, 65>>
FRAME_TYPE_LEDS == <<1, 2>>
FRAME_TYPE_DISPLAY == <<1, 3>>
FRAME_TYPE_DISPLAY_SERVICE == <<2, 3>>
FRAME_TYPE_SERVICE_MODE == <<3, 3>>
\* A type code no decoder is registered for.
FRAME_TYPE_OTHER == <<0, 4>>

\* poolModel.version, the version tag a command request must carry.
Version == 1

Parameters == {"pool", "spa", "spillover", "service"}
button_toggle == {"pool", "spa", "spillover", "service"}
buttons_menu == {"menu"}

(***************************************************************************)
(* Byte-string helpers: Python's bytes operations as the code uses them.   *)
(***************************************************************************)
\* s[a:b] of Python for 0 <= a and b counted from the front.
Slice(s, a, b) == SubSeq(s, a + 1, b)

\* sub in s, for a two-byte sub.
Contains2(s, b1, b2) == \E i \in 1..(Len(s) - 1) : s[i] = b1 /\ s[i + 1] = b2

RECURSIVE SumBytes(_)
SumBytes(s) == IF s = <<>> THEN 0 ELSE Head(s) + SumBytes(Tail(s))

\* frame.replace(b"\x10\x00", b"\x10"): left to right, non-overlapping.
RECURSIVE DestuffDropsEscapedByte(_)
DestuffDropsEscapedByte(f) ==
    IF Len(f) < 2 THEN f
    ELSE IF f[1] = DLE /\ f[2] = NUL
         THEN <<DLE>> \o DestuffDropsEscapedByte(SubSeq(f, 4, Len(f)))
         ELSE <<f[1]>> \o DestuffDropsEscapedByte(Tail(f))

RECURSIVE DestuffScan(_)
DestuffScan(f) ==
    IF Len(f) < 2 THEN f
    ELSE IF f[1] = DLE /\ f[2] = NUL
         THEN <<DLE>> \o DestuffScan(SubSeq(f, 3, Len(f)))
         ELSE <<f[1]>> \o DestuffScan(Tail(f))

Destuff(f) == DestuffScan(f)

\* The transmitter's stuffing: every DLE is followed by the escape byte.
RECURSIVE Stuff(_)
Stuff(p) ==
    IF p = <<>> THEN <<>>
    ELSE IF Head(p) = DLE THEN <<DLE, NUL>> \o Stuff(Tail(p))
         ELSE <<Head(p)>> \o Stuff(Tail(p))

\* The 16-bit checksum of type+payload, big-endian.
Checksum(body) == LET s == SumBytes(body) % 65536 IN <<s \div 256, s % 256>>

\* confirmChecksum(frame): the trailing checksum field against the computed one.
confirmChecksum(frame) ==
    LET n == Len(frame) IN
    256 * frame[n - 3] + frame[n - 2] = SumBytes(Slice(frame, 2, n - 4)) % 65536

\* The frame a transmitter puts on the bus for a type and a payload.
MakeFrame(type, payload) ==
    <<DLE, STX>> \o Stuff(type \o payload \o Checksum(type \o payload)) \o <<DLE, ETX>>


(***************************************************************************)
(* State.                                                                  *)
(***************************************************************************)
VARIABLES
    \* SerialHandler: the bytes the bus has sent and readSerialBus has not
    \* read, in order, whether they are still arriving (a call then finds any
    \* number of them in the input buffer) or are all in it, and the framer's
    \* fields.
    rx, arriving, buffer, buffer_full, looking_for_start, ready_to_send,
    \* CommandHandler.
    sending_message, keep_alive_count, parameter, target_state, confirm,
    attempts_remaining, last_model_timestamp_seen,
    \* PoolModel.
    pm_state, pm_timestamp, flag_data_changed, pm_sending_message,
    \* command_queue.txt: whether the file exists, and its text.
    queue,
    \* Position of main()'s cycle.
    pc,
    \* What the last handler call did: its name, the branch it took, and
    \* whether it called serialHandler.send, socketio.emit or
    \* commandHandler.initiateSend.
    ev,
    \* Observers: transmissions of the command in flight, validated keep-alive
    \* frames dispatched in a row since ready_to_send was last set, frames the
    \* framer has marked complete, the bytes the stream started with, the
    \* frame as it was completed, whether the model has been updated since the
    \* command in flight was accepted and since it was last transmitted,
    \* whether the request in the file was presented to getCommand while a
    \* command was in flight, and the stuffing round trip's registers.
    sent, kaSinceArm, marked, stream0, completed, modelSeen, refused,
    payload, wire, decoded

serialVars == <<rx, arriving, buffer, buffer_full, looking_for_start, ready_to_send>>
framerVars == <<buffer, buffer_full, looking_for_start>>
cmdVars == <<sending_message, keep_alive_count, parameter, target_state, confirm,
             attempts_remaining>>
modelVars == <<pm_state, flag_data_changed, pm_sending_message>>
\* The two recorded timestamps.
clockVars == <<pm_timestamp, last_model_timestamp_seen>>
obsVars == <<sent, kaSinceArm, marked, stream0, completed, modelSeen, refused>>
stuffVars == <<payload, wire, decoded>>
vars == <<serialVars, cmdVars, modelVars, clockVars, queue, pc, ev, obsVars, stuffVars>>

\* The text of a call that has read none.
NoText == <<0 - 2>>

\* read is the line getCommand has read from command_queue.txt.
Event(op, what, s, e, i) ==
    [op |-> op, what |-> what, sent |-> s, emitted |-> e, initiated |-> i,
     read |-> NoText]

(***************************************************************************)
(* The clock.  time.time() reads the wall clock (CLOCK_REALTIME), which is *)
(* neither strictly increasing nor monotonic: a reading may be later than, *)
(* equal to, or (after the clock was set back) earlier than a timestamp    *)
(* recorded before.  The code only ever compares the two recorded          *)
(* timestamps (checkCommand, line 144), so they are kept by their order:   *)
(* after each reading the two values are renumbered by rank.               *)
(***************************************************************************)
Rank(v, a, b) == Cardinality({w \in {a, b} : w < v})

\* The model timestamp and the low-water mark take these values.
Stamp(ts, seen) ==
    /\ pm_timestamp' = Rank(ts, ts, seen)
    /\ last_model_timestamp_seen' = Rank(seen, ts, seen)

\* time.time(): the readings the clock can give, by their order against the
\* recorded timestamp the reading will be compared with.
time(recorded) == {recorded - 1, recorded, recorded + 1}

(***************************************************************************)
(* PoolModel and its decoders.                                             *)
(***************************************************************************)
InitState == [p \in Parameters |-> "INIT"]

\* A name the model holds no parameter for has no state to compare.
getParameterState(name) == IF name \in Parameters THEN pm_state[name] ELSE "NONE"

Bit(b, k) == (b \div k) % 2

\* The indicator states an LED payload carries, from its first byte.
DecodeLEDs(data) ==
    LET b == IF data = <<>> THEN 0 ELSE data[1] IN
    [p \in Parameters |->
        CASE p = "pool" -> IF Bit(b, 1) = 1 THEN "ON" ELSE "OFF"
          [] p = "spa" -> IF Bit(b, 2) = 1 THEN "ON" ELSE "OFF"
          [] p = "spillover" -> IF Bit(b, 4) = 1 THEN "ON" ELSE "OFF"
          [] OTHER -> IF Bit(b, 8) = 1 THEN "ON"
                      ELSE IF Bit(b, 16) = 1 THEN "BLINK" ELSE "OFF"]

parseLEDs(data) ==
    /\ pm_state' = DecodeLEDs(data)
    /\ \E t \in time(last_model_timestamp_seen) :
            Stamp(t, last_model_timestamp_seen)
    /\ flag_data_changed' = TRUE
    /\ UNCHANGED pm_sending_message

parseDisplay(data) ==
    /\ flag_data_changed' = TRUE
    /\ UNCHANGED <<pm_state, clockVars, pm_sending_message>>

(***************************************************************************)
(* SerialHandler.                                                          *)
(***************************************************************************)
\* serialHandler.reset(): discard the buffer and seek the next start.
reset ==
    /\ buffer' = <<>>
    /\ buffer_full' = FALSE
    /\ looking_for_start' = TRUE

\* The framer's end-of-frame test after appending serChar to buf.
FrameEndAnyETX(buf, serChar) == serChar = ETX

FrameEnd(buf, serChar) == serChar = ETX /\ buf[Len(buf) - 1] = DLE

ReadsWhileFull(full) == FALSE

\* Mutation: a DLE met while seeking the start is dropped like any other byte.
NeverReadsSecond(serChar) == FALSE

\* While seeking the start, a DLE makes the framer read the byte after it.
ReadsSecond(serChar) == serChar = DLE

\* The guard that keeps a completed frame from being overwritten.
HoldsFrame(full) == full = TRUE

Min(a, b) == IF a < b THEN a ELSE b

\* serialHandler.in_waiting(): the number of bytes in the input buffer. Bytes
\* that are still arriving come in at any pace, so a call finds none of
\* them, one, or more; a call never looks further than two bytes.
in_waiting == IF arriving THEN 0..Min(2, Len(rx)) ELSE {Len(rx)}

\* serialHandler.read() takes the first byte of the input buffer and gives no
\* data when the buffer is empty: the second read of a call that has found
\* one byte waiting, a DLE, finds nothing, also when the byte after the DLE
\* is on its way.
readSerialBus ==
    \E waiting \in in_waiting :
        /\ IF waiting = 0 \/ HoldsFrame(buffer_full)
           THEN UNCHANGED <<rx, framerVars>>
           ELSE LET serChar == Head(rx)
                    rest == Tail(rx)
                IN  IF looking_for_start
                    THEN IF ReadsSecond(serChar)
                         THEN LET second == IF waiting < 2 THEN NoData ELSE Head(rest)
                              IN  /\ rx' = IF waiting < 2 THEN rest ELSE Tail(rest)
                                  /\ IF second = STX
                                     THEN /\ buffer' = <<DLE, STX>>
                                          /\ looking_for_start' = FALSE
                                     ELSE UNCHANGED <<buffer, looking_for_start>>
                                  /\ UNCHANGED buffer_full
                         ELSE /\ rx' = rest
                              /\ UNCHANGED framerVars
                    ELSE LET buf == Append(buffer, serChar)
                         IN  /\ rx' = rest
                             /\ buffer' = buf
                             /\ IF FrameEnd(buf, serChar)
                                THEN /\ buffer_full' = TRUE
                                     /\ looking_for_start' = TRUE
                                ELSE UNCHANGED <<buffer_full, looking_for_start>>
        /\ arriving' = (arriving /\ rx' # <<>>)
        /\ ev' = Event("readSerialBus",
                       IF waiting = 0 THEN "nodata"
                       ELSE IF buffer_full THEN "held" ELSE "read",
                       FALSE, FALSE, FALSE)
        /\ UNCHANGED <<ready_to_send, cmdVars, modelVars, clockVars, queue>>

(***************************************************************************)
(* CommandHandler.                                                         *)
(***************************************************************************)
\* commandHandler.initiateSend(commandID, commandState, commandConfirm):
\* populate the handshake state for a newly accepted command. Whether it
\* leaves the low-water mark alone or records a reading of the clock, the
\* mark is afterwards older than, equal to or newer than the model's
\* timestamp: every order is taken.
initiateSend(commandID, commandState, commandConfirm) ==
    /\ sending_message' = TRUE
    /\ parameter' = commandID
    /\ target_state' = commandState
    /\ confirm' = commandConfirm
    /\ attempts_remaining' = MAX_SEND_ATTEMPTS
    /\ keep_alive_count' = 0
    /\ \E t \in time(pm_timestamp) : Stamp(pm_timestamp, t)

\* commandHandler.sendAttemptsRemain(): spend one attempt of the budget, or
\* abandon the command when none is left.
sendAttemptsRemain(attempts) ==
    IF attempts > 0
    THEN [remain |-> TRUE, attempts |-> attempts - 1, sending |-> TRUE]
    ELSE [remain |-> FALSE, attempts |-> attempts, sending |-> FALSE]

(***************************************************************************)
(* parseBuffer.                                                            *)
(***************************************************************************)
\* Mutation: the checksum field is not looked at.
ValidateIgnoresChecksum(frame) ==
    LET inner == Slice(frame, 2, Len(frame) - 2) IN
    IF Contains2(inner, DLE, STX) THEN "DLE_STX"
    ELSE IF Contains2(inner, DLE, ETX) THEN "DLE_ETX"
    ELSE "ok"

\* The validator's verdict on a destuffed frame.
Validate(frame) ==
    LET inner == Slice(frame, 2, Len(frame) - 2) IN
    IF Contains2(inner, DLE, STX) THEN "DLE_STX"
    ELSE IF Contains2(inner, DLE, ETX) THEN "DLE_ETX"
    ELSE IF ~confirmChecksum(frame) THEN "checksum"
    ELSE "ok"

\* Mutations of the keep-alive branch: keep the slot request after
\* transmitting; keep a fire-and-forget command in flight after transmitting.
onKeepAliveKeepsReady(ready, count, conf, sending) ==
    IF ready
    THEN IF count = 1
         THEN [send |-> TRUE, sending |-> IF conf THEN sending ELSE FALSE,
               ready |-> TRUE, count |-> count]
         ELSE [send |-> FALSE, sending |-> sending, ready |-> ready, count |-> 1]
    ELSE [send |-> FALSE, sending |-> sending, ready |-> ready, count |-> 0]

onKeepAliveKeepsSending(ready, count, conf, sending) ==
    IF ready
    THEN IF count = 1
         THEN [send |-> TRUE, sending |-> sending, ready |-> FALSE, count |-> count]
         ELSE [send |-> FALSE, sending |-> sending, ready |-> ready, count |-> 1]
    ELSE [send |-> FALSE, sending |-> sending, ready |-> ready, count |-> 0]

\* Mutation: the second keep-alive frame in a row grants no slot.
onKeepAliveNeverSends(ready, count, conf, sending) ==
    IF ready
    THEN [send |-> FALSE, sending |-> sending, ready |-> ready, count |-> 1]
    ELSE [send |-> FALSE, sending |-> sending, ready |-> ready, count |-> 0]

\* Mutation: a frame that is no keep-alive leaves the heartbeat count alone.
onOtherFrameKeepsCount(count) == count

\* "Message is not keep alive": the heartbeat count starts over.
onOtherFrame(count) == 0

\* The keep-alive branch: what it does to the handshake, and whether it
\* calls serialHandler.send.
onKeepAlive(ready, count, conf, sending) ==
    IF ready
    THEN IF count = 1
         THEN [send |-> TRUE, sending |-> IF conf THEN sending ELSE FALSE,
               ready |-> FALSE, count |-> count]
         ELSE [send |-> FALSE, sending |-> sending, ready |-> ready, count |-> 1]
    ELSE [send |-> FALSE, sending |-> sending, ready |-> ready, count |-> 0]

parseBuffer ==
    IF ~buffer_full
    THEN /\ ev' = Event("parseBuffer", "none", FALSE, FALSE, FALSE)
         /\ UNCHANGED <<serialVars, cmdVars, modelVars, clockVars, queue>>
    ELSE LET frame == Destuff(buffer)
             frameType == Slice(frame, 2, 4)
             data == Slice(frame, 4, Len(frame) - 4)
         IN  IF Validate(frame) # "ok"
             THEN /\ reset
                  /\ ev' = Event("parseBuffer", "rejected", FALSE, FALSE, FALSE)
                  /\ UNCHANGED <<rx, arriving, ready_to_send, cmdVars, modelVars, clockVars,
                                 queue>>
             ELSE IF frameType = FRAME_TYPE_KEEPALIVE
             THEN LET k == onKeepAlive(ready_to_send, keep_alive_count, confirm,
                                       sending_message)
                  IN  /\ sending_message' = k.sending
                      /\ ready_to_send' = k.ready
                      /\ keep_alive_count' = k.count
                      /\ reset
                      /\ ev' = Event("parseBuffer", "keepalive", k.send, FALSE, FALSE)
                      /\ UNCHANGED <<rx, arriving, parameter, target_state, confirm,
                                     attempts_remaining, modelVars, clockVars, queue>>
             ELSE /\ keep_alive_count' = onOtherFrame(keep_alive_count)
                  /\ CASE frameType = FRAME_TYPE_DISPLAY -> parseDisplay(data)
                       [] frameType = FRAME_TYPE_LEDS -> parseLEDs(data)
                       [] frameType = FRAME_TYPE_DISPLAY_SERVICE -> parseDisplay(data)
                       [] OTHER -> UNCHANGED <<modelVars, clockVars>>
                  /\ reset
                  /\ ev' = Event("parseBuffer",
                                 IF frameType \in {FRAME_TYPE_DISPLAY, FRAME_TYPE_LEDS,
                                                   FRAME_TYPE_DISPLAY_SERVICE,
                                                   FRAME_TYPE_SERVICE_MODE}
                                 THEN "update" ELSE "unknown",
                                 FALSE, FALSE, FALSE)
                  /\ UNCHANGED <<rx, arriving, ready_to_send, sending_message, parameter,
                                 target_state, confirm, attempts_remaining, queue>>

(***************************************************************************)
(* checkCommand.                                                           *)
(***************************************************************************)
\* Mutation: the comparison goes on while a slot request is pending.
AwaitingKeepAliveNever(ready) == FALSE

\* "We are already ready to send, awaiting keep alive".
AwaitingKeepAlive(ready) == ready = TRUE

\* "We have a new poolModel".
NewModel(ts, seen) == ts >= seen

checkCommand ==
    IF sending_message = FALSE
    THEN /\ ev' = Event("checkCommand", "idle", FALSE, FALSE, FALSE)
         /\ UNCHANGED <<serialVars, cmdVars, modelVars, clockVars, queue>>
    ELSE IF AwaitingKeepAlive(ready_to_send)
    THEN /\ ev' = Event("checkCommand", "awaiting", FALSE, FALSE, FALSE)
         /\ UNCHANGED <<serialVars, cmdVars, modelVars, clockVars, queue>>
    ELSE
       IF NewModel(pm_timestamp, last_model_timestamp_seen)
       THEN IF getParameterState(parameter) = target_state
            THEN /\ ev' = Event("checkCommand", "success", FALSE, FALSE, FALSE)
                 /\ sending_message' = FALSE
                 /\ pm_sending_message' = FALSE
                 /\ flag_data_changed' = TRUE
                 /\ UNCHANGED <<serialVars, keep_alive_count, parameter, target_state,
                                confirm, attempts_remaining, pm_state, clockVars,
                                queue>>
            ELSE LET a == sendAttemptsRemain(attempts_remaining)
                 IN  /\ ev' = Event("checkCommand",
                                    IF a.remain THEN "armed" ELSE "abandoned",
                                    FALSE, FALSE, FALSE)
                     /\ attempts_remaining' = a.attempts
                     /\ sending_message' = a.sending
                     /\ IF a.remain
                        THEN /\ \E t \in time(pm_timestamp) :
                                    Stamp(pm_timestamp, t)
                             /\ ready_to_send' = TRUE
                        ELSE UNCHANGED <<clockVars, ready_to_send>>
                     /\ UNCHANGED <<rx, arriving, framerVars, keep_alive_count, parameter,
                                    target_state, confirm, modelVars, queue>>
       ELSE /\ ev' = Event("checkCommand", "stale", FALSE, FALSE, FALSE)
            /\ UNCHANGED <<serialVars, cmdVars, modelVars, clockVars, queue>>

(***************************************************************************)
(* sendModel.                                                              *)
(***************************************************************************)
\* Mutation: the dirty flag is left set after the emit.
FlagAfterEmitStaysSet(flag) == flag

\* The dirty flag after sendModel has looked at it.
FlagAfterEmit(flag) == FALSE

sendModel ==
    /\ ev' = Event("sendModel",
                   IF ev.op = "checkCommand" /\ ev.what = "success"
                   THEN "confirmation" ELSE "none",
                   FALSE, flag_data_changed = TRUE, FALSE)
    /\ flag_data_changed' = IF flag_data_changed = TRUE
                            THEN FlagAfterEmit(flag_data_changed)
                            ELSE flag_data_changed
    /\ UNCHANGED <<serialVars, cmdVars, pm_state, pm_sending_message, clockVars,
                   queue>>

(***************************************************************************)
(* getCommand.                                                             *)
(***************************************************************************)
\* command_queue.txt holds bytes, which open(..., "r+") reads as UTF-8 text.
\* A text is a sequence of characters, each the code point of a Unicode
\* character; InvalidByte stands for a byte 0xFF, which no UTF-8 text holds.
InvalidByte == 0 - 1
LF == 10
CR == 13
Comma == 44

\* The code points of the characters the requests are written with.
Letters == <<"a", "b", "c", "d", "e", "f", "g", "h", "i", "j", "k", "l", "m",
             "n", "o", "p", "q", "r", "s", "t", "u", "v", "w", "x", "y", "z">>
Numerals == <<"0", "1", "2", "3", "4", "5", "6", "7", "8", "9">>
Index(seq, c) == CHOOSE i \in 1..Len(seq) : seq[i] = c
ord(c) ==
    IF \E i \in 1..Len(Letters) : Letters[i] = c THEN 96 + Index(Letters, c)
    ELSE IF \E i \in 1..Len(Numerals) : Numerals[i] = c THEN 47 + Index(Numerals, c)
    ELSE CASE c = " " -> 32
           [] c = "+" -> 43
           [] c = "," -> 44
           [] c = "-" -> 45
           [] c = "_" -> 95
Text(chars) == [i \in 1..Len(chars) |-> ord(chars[i])]

\* The least and the greatest of a non-empty set of positions.
First(positions) == CHOOSE i \in positions : \A j \in positions : i <= j
Last(positions) == 0 - First({0 - i : i \in positions})

\* The text layer reads the file in chunks of io.DEFAULT_BUFFER_SIZE bytes
\* and decodes each chunk whole.
ChunkSize == 8192

\* The number of bytes the first i characters of the text take as UTF-8.
End(text, i) ==
    i + Cardinality({j \in 1..i : text[j] >= 128})
      + Cardinality({j \in 1..i : text[j] >= 2048})
      + Cardinality({j \in 1..i : text[j] >= 65536})

\* The positions that end a line: open() translates universal newlines, so a
\* carriage return ends a line as a line feed does.
Breaks(text) == {i \in 1..Len(text) : text[i] \in {LF, CR}}

\* The bytes readline has decoded when it returns: the chunks up to the one
\* that shows the end of the first line (a carriage return ends the line
\* once the character after it has been decoded), the whole file if there is
\* no such chunk.
BytesRead(text) ==
    LET ends == Breaks(text)
        shown == IF ends = {} THEN 0
                 ELSE IF text[First(ends)] = LF THEN First(ends)
                 ELSE IF First(ends) < Len(text) THEN First(ends) + 1
                 ELSE 0
    IN  IF shown = 0 THEN End(text, Len(text))
        ELSE ChunkSize * ((End(text, shown) + ChunkSize - 1) \div ChunkSize)

\* f.readline() returns: it raises UnicodeDecodeError when a chunk it has
\* decoded holds a byte that is no UTF-8.
Decodable(text) ==
    LET bad == {i \in 1..Len(text) : text[i] = InvalidByte}
    IN  bad = {} \/ End(text, First(bad)) > BytesRead(text)

\* f.readline(): the first line of the text, its end translated to a line
\* feed; the whole text if no line ends in it.
readline(text) ==
    IF Breaks(text) = {} THEN text
    ELSE SubSeq(text, 1, First(Breaks(text)) - 1) \o <<LF>>

\* text.split(sep): the fields between the separators, one more field than
\* there are separators.
split(text, sep) ==
    LET at == {i \in 1..Len(text) : text[i] = sep}
        cut(n) == IF n = 0 THEN 0
                  ELSE IF n > Cardinality(at) THEN Len(text) + 1
                  ELSE CHOOSE i \in at : Cardinality({j \in at : j < i}) = n - 1
    IN  [n \in 1..(Cardinality(at) + 1) |->
            SubSeq(text, cut(n - 1) + 1, cut(n) - 1)]

\* The names of the buttons, as the front end spells them.
CommandNames == button_toggle \cup {"pool-spa-spillover"} \cup buttons_menu
Spelling ==
    [name \in CommandNames |->
        CASE name = "pool" -> Text(<<"p", "o", "o", "l">>)
          [] name = "spa" -> Text(<<"s", "p", "a">>)
          [] name = "spillover" ->
                Text(<<"s", "p", "i", "l", "l", "o", "v", "e", "r">>)
          [] name = "service" -> Text(<<"s", "e", "r", "v", "i", "c", "e">>)
          [] name = "menu" -> Text(<<"m", "e", "n", "u">>)
          [] name = "pool-spa-spillover" ->
                Text(<<"p", "o", "o", "l", "-", "s", "p", "a", "-",
                       "s", "p", "i", "l", "l", "o", "v", "e", "r">>)]

\* A field as a name: the button it spells; any other text is no name of a
\* button.
NoWord == ""
Word(field) ==
    IF \E name \in CommandNames : Spelling[name] = field
    THEN CHOOSE name \in CommandNames : Spelling[name] = field
    ELSE NoWord

\* int(text) accepts optional white space around an optional sign and
\* decimal digits, which single underscores may separate, up to
\* sys.int_info.default_max_str_digits digits; for any other text it raises
\* ValueError. White space is what int() strips (Py_UNICODE_ISSPACE without
\* the separators U+001C to U+001F); a decimal digit is a character of
\* Unicode category Nd, and these come in runs of ten from a zero.
WhiteSpace ==
    (9..13) \cup {32, 133, 160, 5760} \cup (8192..8202)
    \cup {8232, 8233, 8239, 8287, 12288}
Digits ==
    {48, 1632, 1776, 1984, 2406, 2534, 2662, 2790, 2918, 3046, 3174, 3302,
     3430, 3558, 3664, 3792, 3872, 4160, 4240, 6112, 6160, 6470, 6608, 6784,
     6800, 6992, 7088, 7232, 7248, 42528, 43216, 43264, 43472, 43504, 43600,
     44016, 65296, 66720, 68912, 69734, 69872, 69942, 70096, 70384, 70736,
     70864, 71248, 71360, 71472, 71904, 72016, 72784, 73040, 73120, 92768,
     92864, 93008, 120782, 120792, 120802, 120812, 120822, 123200, 123632,
     125264, 130032}
IsDigit(c) == \E zero \in Digits : zero <= c /\ c <= zero + 9
DigitValue(c) == c - (CHOOSE zero \in Digits : zero <= c /\ c <= zero + 9)
MaxStrDigits == 4300
Plus == ord("+")
Minus == ord("-")
Underscore == ord("_")

lstrip(text) ==
    LET ink == {i \in 1..Len(text) : text[i] \notin WhiteSpace}
    IN  IF ink = {} THEN <<>> ELSE SubSeq(text, First(ink), Len(text))

rstrip(text) ==
    LET ink == {i \in 1..Len(text) : text[i] \notin WhiteSpace}
    IN  IF ink = {} THEN <<>> ELSE SubSeq(text, 1, Last(ink))

strip(text) == rstrip(lstrip(text))

Signed(text) == text # <<>> /\ Head(text) \in {Plus, Minus}
Unsigned(text) == IF Signed(text) THEN Tail(text) ELSE text

IsNumeral(text) ==
    /\ text # <<>>
    /\ \A i \in 1..Len(text) : IsDigit(text[i]) \/ text[i] = Underscore
    /\ text[1] # Underscore /\ text[Len(text)] # Underscore
    /\ \A i \in 1..(Len(text) - 1) : ~(text[i] = Underscore /\ text[i + 1] = Underscore)
    /\ Cardinality({i \in 1..Len(text) : IsDigit(text[i])}) <= MaxStrDigits

IsInt(text) == \E t \in {Unsigned(strip(text))} : IsNumeral(t)

\* The digits of a numeral from its first digit that is no zero.
Significant(text) ==
    LET from == {i \in 1..Len(text) : IsDigit(text[i]) /\ DigitValue(text[i]) # 0}
    IN  IF from = {} THEN <<>> ELSE SubSeq(text, First(from), Len(text))

RECURSIVE Decimal(_, _)
Decimal(text, acc) ==
    IF text = <<>> THEN acc
    ELSE IF Head(text) = Underscore THEN Decimal(Tail(text), acc)
    ELSE Decimal(Tail(text), 10 * acc + DigitValue(Head(text)))

\* int(text), for a text of at most MaxExact significant digits.
MaxExact == 9
IntOf(text) ==
    LET t == strip(text)
        n == Decimal(Significant(Unsigned(t)), 0)
    IN  IF Signed(t) /\ Head(t) = Minus THEN 0 - n ELSE n

\* int(text) != n, for a number n of at most MaxExact digits: an integer of
\* more significant digits is another number.
Differs(text, n) ==
    \E digits \in {Significant(Unsigned(strip(text)))} :
        \/ Cardinality({i \in 1..Len(digits) : IsDigit(digits[i])}) > MaxExact
        \/ IntOf(text) # n

\* The single pool/spa/spillover button stands for the next of the three.
ResolveCommandID(commandID) ==
    IF commandID = "pool-spa-spillover"
    THEN IF getParameterState("pool") = "ON" THEN "pool"
         ELSE IF getParameterState("spa") = "ON" THEN "spa"
         ELSE "spillover"
    ELSE commandID

\* Mutation: the service button is toggled like the two-state buttons.
desiredStateTwoStates(commandID, currentState) ==
    IF currentState = "ON" THEN "OFF" ELSE "ON"

\* The state a toggle command asks for, from the state observed now.
desiredState(commandID, currentState) ==
    IF commandID = "service"
    THEN IF currentState = "ON" THEN "BLINK"
         ELSE IF currentState = "BLINK" THEN "OFF"
         ELSE "ON"
    ELSE IF currentState = "ON" THEN "OFF" ELSE "ON"

\* f.truncate(0): command_queue.txt is emptied, whatever it holds by then.
\* getCommand holds no lock on the file, and the front end runs in a thread
\* of its own: a request it wrote after readline returned is erased with the
\* one that was read, and no call of getCommand ever sees it.
truncate == queue' = [queue EXCEPT !.content = <<>>]

\* The text of a request: the command, a comma, the version, and whatever
\* the writer puts around them.
Request(command, rest) == Spelling[command] \o <<Comma>> \o rest

\* Requests the front end writes: a toggle and a menu button.
CommandLines == {Request("pool", Text(<<"1">>)), Request("menu", Text(<<"1">>))}

\* getCommand holds no lock on command_queue.txt, and the front end writes to
\* it from a thread of its own, in two steps: open(..., "w") empties the
\* file, write fills it. Between two system calls of getCommand the file may
\* therefore have been emptied: Found is what a call finds of the text the
\* call before it has seen.
Found(text) == {text, <<>>}

\* What the file holds when a call returns that has found it emptied: nothing
\* yet, the text it held again, or another request.
Refilled(text) == {<<>>, text} \cup CommandLines

\* "We are currently trying to send a command".
Busy(sending) == sending = TRUE

getCommand ==
    IF Busy(sending_message)
    THEN \* Returns before it looks at the file.
         /\ ev' = Event("getCommand", "busy", FALSE, FALSE, FALSE)
         /\ UNCHANGED <<serialVars, cmdVars, modelVars, clockVars, queue>>
    ELSE IF ~queue.exists
    THEN /\ ev' = Event("getCommand", "empty", FALSE, FALSE, FALSE)
         /\ UNCHANGED <<serialVars, cmdVars, modelVars, clockVars, queue>>
    ELSE
    \* stat (line 174) finds the text exists (line 172) has seen, or none.
    \E seen \in Found(queue.content) :
    IF seen = <<>>
    THEN \* Size 0: returns without opening the file.
         /\ ev' = Event("getCommand", "empty", FALSE, FALSE, FALSE)
         /\ \E left \in (IF queue.content = <<>> THEN {<<>>}
                          ELSE Refilled(queue.content)) :
                queue' = [queue EXCEPT !.content = left]
         /\ UNCHANGED <<serialVars, cmdVars, modelVars, clockVars>>
    ELSE
    \* readline (line 176) finds the text stat has seen, or none.
    \E text \in Found(seen) :
    IF ~Decodable(text)
    THEN \* readline raises UnicodeDecodeError outside the try block.
         /\ ev' = Event("getCommand", "raised", FALSE, FALSE, FALSE)
         /\ UNCHANGED <<serialVars, cmdVars, modelVars, clockVars, queue>>
    ELSE
    \E line \in {readline(text)} :
    \E fields \in {split(line, Comma)} :
    \E id \in {Word(fields[1])} :
    /\ UNCHANGED <<rx, arriving, framerVars, pm_state, flag_data_changed>>
    /\ IF Len(fields) # 2 \/ ~IsInt(fields[2])
          \/ Differs(fields[2], Version)
          \/ id \notin CommandNames
       THEN \* Malformed, wrong version or unknown command: discarded.
            /\ truncate
            /\ ev' = [Event("getCommand", "discarded", FALSE, FALSE, FALSE)
                        EXCEPT !.read = line]
            /\ UNCHANGED <<ready_to_send, cmdVars, pm_sending_message, clockVars>>
       ELSE IF id \in buttons_menu
       THEN \* Menu button: sent once, loaded for sending at once.
            /\ initiateSend(id, "NA", FALSE)
            /\ ready_to_send' = TRUE
            /\ truncate
            /\ ev' = [Event("getCommand", "accepted", FALSE, FALSE, TRUE)
                        EXCEPT !.read = line]
            /\ UNCHANGED pm_sending_message
       ELSE LET commandID == ResolveCommandID(id)
                currentState == getParameterState(commandID)
            IN  IF currentState = "INIT"
                THEN \* Returns without clearing the file.
                     /\ ev' = [Event("getCommand", "init", FALSE, FALSE, FALSE)
                                 EXCEPT !.read = line]
                     /\ UNCHANGED <<ready_to_send, cmdVars, pm_sending_message,
                                    clockVars, queue>>
                ELSE /\ initiateSend(commandID,
                                     desiredState(commandID, currentState), TRUE)
                     /\ pm_sending_message' = TRUE
                     /\ truncate
                     /\ ev' = [Event("getCommand", "accepted", FALSE, FALSE, TRUE)
                                 EXCEPT !.read = line]
                     /\ UNCHANGED ready_to_send

(***************************************************************************)
(* Observers, updated from what a handler call did.                        *)
(***************************************************************************)
\* The handler call has given the model a new timestamp (parseLEDs).
ModelUpdated ==
    /\ ev'.op = "parseBuffer" /\ ev'.what = "update"
    /\ Slice(Destuff(buffer), 2, 4) = FRAME_TYPE_LEDS

\* modelSeen is "none" while no model update has arrived since the command in
\* flight was accepted, "fresh" when one has arrived since the later of its
\* acceptance and its last transmission, and "stale" when the only updates
\* since its acceptance arrived before its last transmission.
\* getCommand returns with no command in flight: the observers of the
\* command in flight start over.
Rests == ev'.op = "getCommand" /\ ~sending_message'

\* refused is set while the file holds a request that getCommand has left
\* unread because a command was in flight.
ObserveCommand ==
    /\ sent' = IF ev'.initiated \/ Rests THEN 0
               ELSE IF ev'.sent THEN sent + 1 ELSE sent
    /\ kaSinceArm' = IF (ready_to_send' /\ ~ready_to_send) \/ Rests THEN 0
                     ELSE IF ev'.what = "keepalive" THEN Min(kaSinceArm + 1, 2)
                     ELSE IF ev'.what \in {"update", "unknown"} THEN 0
                     ELSE kaSinceArm
    /\ modelSeen' = IF ev'.initiated \/ Rests THEN "none"
                    ELSE IF ModelUpdated THEN "fresh"
                    ELSE IF ev'.sent /\ modelSeen = "fresh" THEN "stale"
                    ELSE modelSeen
    /\ refused' = IF queue'.content = <<>> THEN FALSE
                  ELSE IF ev'.op = "getCommand"
                       THEN IF ev'.what = "busy" THEN TRUE
                            ELSE IF ev'.what = "empty" THEN FALSE
                            ELSE refused
                       ELSE refused
    /\ UNCHANGED stream0

ObserveFramer ==
    /\ marked' = IF buffer_full' /\ ~buffer_full THEN Min(marked + 1, 2) ELSE marked
    /\ completed' = IF buffer_full' /\ ~buffer_full THEN buffer' ELSE completed

\* The framer's specifications observe the frames it marks, main()'s cycle
\* the command in flight.
Observe == ObserveCommand /\ ObserveFramer

ObserveCycle == ObserveCommand /\ UNCHANGED <<marked, completed>>

(***************************************************************************)
(* The bus and the front end.                                              *)
(***************************************************************************)
\* LED payloads: all off, pool on, spa on, spillover on, service on, service
\* blinking (a payload byte equal to DLE, stuffed on the wire).
LedPayloads == {<<0>>, <<1>>, <<2>>, <<4>>, <<8>>, <<16>>}

KeepAliveFrame == MakeFrame(FRAME_TYPE_KEEPALIVE, <<>>)

\* A keep-alive frame whose checksum field is off by one.
CorruptFrame ==
    <<DLE, STX>> \o FRAME_TYPE_KEEPALIVE \o <<0, 141>> \o <<DLE, ETX>>

\* Frames on the bus: keep-alive, LED and display updates, a service mode
\* notice, a frame of a type no decoder is registered for, and a frame
\* parseBuffer rejects.
BusFrames ==
    {KeepAliveFrame, CorruptFrame, MakeFrame(FRAME_TYPE_OTHER, <<>>),
     MakeFrame(FRAME_TYPE_DISPLAY, <<>>),
     MakeFrame(FRAME_TYPE_DISPLAY_SERVICE, <<>>),
     MakeFrame(FRAME_TYPE_SERVICE_MODE, <<>>),
     MakeFrame(FRAME_TYPE_LEDS, <<0>>), MakeFrame(FRAME_TYPE_LEDS, <<1>>)}

\* The bus sends the bytes f. They arrive at any pace, all at once included
\* (late), or they are all in the input buffer before the next call. Only
\* readSerialBus looks at the transport, so the bus is taken to send just
\* before its call.
Deliver(f, late) ==
    /\ pc = "readSerialBus"
    /\ rx = <<>>
    /\ rx' = f
    /\ arriving' = late
    /\ UNCHANGED <<framerVars, ready_to_send, cmdVars, modelVars, clockVars, queue,
                   pc, ev, obsVars, stuffVars>>

BusDeliver == \E f \in BusFrames : Deliver(f, TRUE)

\* The front end writes a request to command_queue.txt at any time, whatever
\* the file holds, in two steps: it opens the file for writing, which
\* creates or empties it, and it writes the request. Only getCommand looks
\* at the file, so a step of the writer is taken just before a call of
\* getCommand, or within it (Found, Refilled, truncate).
writerUnchanged ==
    UNCHANGED <<serialVars, cmdVars, modelVars, clockVars, pc, ev, sent, kaSinceArm,
                marked, stream0, completed, modelSeen, stuffVars>>

QueueOpen ==
    /\ pc = "getCommand"
    /\ queue' = [exists |-> TRUE, content |-> <<>>]
    /\ refused' = FALSE
    /\ writerUnchanged

Write(text) ==
    /\ pc = "getCommand"
    /\ queue' = [exists |-> TRUE, content |-> text]
    /\ refused' = FALSE
    /\ writerUnchanged

QueueWrite == \E text \in CommandLines : Write(text)

(***************************************************************************)
(* main(): the cycle readSerialBus, parseBuffer, checkCommand, sendModel,  *)
(* getCommand.                                                             *)
(***************************************************************************)
MainRead ==
    pc = "readSerialBus" /\ readSerialBus /\ pc' = "parseBuffer"
    /\ ObserveCycle /\ UNCHANGED stuffVars

MainParse ==
    pc = "parseBuffer" /\ parseBuffer /\ pc' = "checkCommand"
    /\ ObserveCycle /\ UNCHANGED stuffVars

MainCheck ==
    pc = "checkCommand" /\ checkCommand /\ pc' = "sendModel"
    /\ ObserveCycle /\ UNCHANGED stuffVars

MainSendModel ==
    pc = "sendModel" /\ sendModel /\ pc' = "getCommand"
    /\ ObserveCycle /\ UNCHANGED stuffVars

\* An exception that leaves getCommand leaves main(): the loop has ended.
MainGetCommand ==
    pc = "getCommand" /\ getCommand
    /\ pc' = (IF ev'.what = "raised" THEN "ended" ELSE "readSerialBus")
    /\ ObserveCycle /\ UNCHANGED stuffVars

InitProgram ==
    /\ buffer = <<>> /\ buffer_full = FALSE /\ looking_for_start = TRUE
    /\ ready_to_send = FALSE
    /\ sending_message = FALSE /\ keep_alive_count = 0
    /\ parameter = "" /\ target_state = "" /\ confirm = TRUE
    /\ attempts_remaining = 0 /\ last_model_timestamp_seen = 0
    /\ pm_state = InitState /\ pm_timestamp = 0
    /\ flag_data_changed = FALSE /\ pm_sending_message = FALSE
    /\ queue \in {[exists |-> FALSE, content |-> <<>>],
                  [exists |-> TRUE, content |-> <<>>]}
    /\ ev = Event("main", "none", FALSE, FALSE, FALSE)
    /\ sent = 0 /\ kaSinceArm = 0 /\ marked = 0 /\ completed = <<>>
    /\ modelSeen = "none" /\ refused = FALSE
    /\ payload = <<>> /\ wire = <<>> /\ decoded = <<>>

Init ==
    /\ InitProgram
    /\ pc = "readSerialBus"
    /\ rx = <<>> /\ arriving = FALSE
    /\ stream0 = [frame |-> <<>>, garbage |-> <<>>]

Next ==
    \/ MainRead \/ MainParse \/ MainCheck \/ MainSendModel \/ MainGetCommand
    \/ BusDeliver \/ QueueOpen \/ QueueWrite

Spec == Init /\ [][Next]_vars

(***************************************************************************)
(* The framer on its own: readSerialBus and parseBuffer called in any      *)
(* order on a stream that holds one well-formed frame and then garbage,    *)
(* all of it in the input buffer.                                          *)
(***************************************************************************)
SeqsUpTo(S, n) == UNION {[1..k -> S] : k \in 0..n}

\* Frames with no payload, with a payload byte equal to ETX, and with a
\* stuffed DLE followed by ETX.
WellFormedFrames ==
    {MakeFrame(FRAME_TYPE_KEEPALIVE, <<>>), MakeFrame(FRAME_TYPE_LEDS, <<ETX>>),
     MakeFrame(FRAME_TYPE_LEDS, <<DLE, ETX>>)}

GarbageBytes == {DLE, STX, ETX, NUL}

\* Where readSerialBus, seeking a start from byte i of g, finds one: it takes
\* one byte, and after a DLE the byte that follows it, which is STX or is
\* dropped with the DLE. 0 when it finds none.
RECURSIVE Seek(_, _)
Seek(g, i) ==
    IF i > Len(g) THEN 0
    ELSE IF g[i] # DLE THEN Seek(g, i + 1)
    ELSE IF i + 1 > Len(g) THEN 0
    ELSE IF g[i + 1] = STX THEN i
    ELSE Seek(g, i + 2)

\* The framer finds a start in g and, after it, a DLE followed by ETX.
FramedRun(g) ==
    /\ Seek(g, 1) # 0
    /\ \E j \in (Seek(g, 1) + 2)..(Len(g) - 1) : g[j] = DLE /\ g[j + 1] = ETX

InitFramer ==
    /\ InitProgram
    /\ pc = "framer"
    /\ \E f \in WellFormedFrames, g \in SeqsUpTo(GarbageBytes, MaxGarbage) :
        /\ rx = f \o g /\ arriving = FALSE
        /\ stream0 = [frame |-> f, garbage |-> g]

FramerRead ==
    pc = "framer" /\ readSerialBus /\ Observe /\ UNCHANGED <<pc, stuffVars>>

FramerParse ==
    pc = "framer" /\ parseBuffer /\ Observe /\ UNCHANGED <<pc, stuffVars>>

NextFramer == FramerRead \/ FramerParse

SpecFramer == InitFramer /\ [][NextFramer]_vars

(***************************************************************************)
(* The stuffing round trip: a payload is stuffed by the transmitter and    *)
(* destuffed as parseBuffer does.                                          *)
(***************************************************************************)
StuffBytes == {DLE, NUL, STX, ETX}

\* Payloads of the round trip.
Payloads == SeqsUpTo(StuffBytes, MaxLen)

InitStuff ==
    /\ InitProgram
    /\ pc = "stuff"
    /\ rx = <<>> /\ arriving = FALSE
    /\ stream0 = [frame |-> <<>>, garbage |-> <<>>]

ChoosePayload ==
    /\ pc = "stuff"
    /\ \E p \in Payloads : payload' = p
    /\ wire' = <<>> /\ decoded' = <<>>
    /\ pc' = "encode"
    /\ UNCHANGED <<serialVars, cmdVars, modelVars, clockVars, queue, ev, obsVars>>

DoStuff ==
    /\ pc = "encode"
    /\ wire' = Stuff(payload)
    /\ pc' = "destuff"
    /\ UNCHANGED <<serialVars, cmdVars, modelVars, clockVars, queue, ev, obsVars, payload,
                   decoded>>

DoDestuff ==
    /\ pc = "destuff"
    /\ decoded' = Destuff(wire)
    /\ pc' = "done"
    /\ UNCHANGED <<serialVars, cmdVars, modelVars, clockVars, queue, ev, obsVars, payload, wire>>

NextStuff == ChoosePayload \/ DoStuff \/ DoDestuff

SpecStuff == InitStuff /\ [][NextStuff]_vars

(***************************************************************************)
(* The framer and the dispatcher on a stream that holds a frame parseBuffer *)
(* rejects and then a well-formed frame, all of it in the input buffer,    *)
(* with no command in flight or with a toggle of the pool armed and        *)
(* waiting for its slot.                                                   *)
(***************************************************************************)
\* A frame with a wrong checksum, frames whose destuffed body holds a
\* delimiter pair, and a frame that lost its end and ran into the next one.
RejectedFrames ==
    {CorruptFrame, MakeFrame(FRAME_TYPE_LEDS, <<DLE, STX>>),
     MakeFrame(FRAME_TYPE_LEDS, <<DLE, ETX>>),
     <<DLE, STX>> \o FRAME_TYPE_LEDS \o KeepAliveFrame}

FollowingFrames ==
    {KeepAliveFrame, MakeFrame(FRAME_TYPE_LEDS, <<1>>),
     MakeFrame(FRAME_TYPE_DISPLAY, <<>>), MakeFrame(FRAME_TYPE_OTHER, <<>>)}

\* main() after 'pool,1' was accepted with the pool off and checkCommand has
\* requested a slot; count keep-alive frames have been counted since.
ArmedProgram(count) ==
    /\ buffer = <<>> /\ buffer_full = FALSE /\ looking_for_start = TRUE
    /\ ready_to_send = TRUE
    /\ sending_message = TRUE /\ keep_alive_count = count
    /\ parameter = "pool" /\ target_state = "ON" /\ confirm = TRUE
    /\ attempts_remaining = MAX_SEND_ATTEMPTS - 1
    /\ pm_state = DecodeLEDs(<<0>>)
    /\ pm_timestamp = 0 /\ last_model_timestamp_seen = 1
    /\ flag_data_changed = FALSE /\ pm_sending_message = TRUE
    /\ queue = [exists |-> TRUE, content |-> <<>>]
    /\ ev = Event("getCommand", "busy", FALSE, FALSE, FALSE)
    /\ sent = 0 /\ kaSinceArm = count /\ marked = 0 /\ completed = <<>>
    /\ modelSeen = "fresh" /\ refused = FALSE
    /\ payload = <<>> /\ wire = <<>> /\ decoded = <<>>

InitReject ==
    /\ \/ InitProgram
       \/ \E count \in {0, 1} : ArmedProgram(count)
    /\ pc = "framer"
    /\ \E bad \in RejectedFrames, good \in FollowingFrames :
        /\ rx = bad \o good /\ arriving = FALSE
        /\ stream0 = [frame |-> bad, garbage |-> <<>>, next |-> good]

SpecReject == InitReject /\ [][NextFramer]_vars

(***************************************************************************)
(* main() on a bus that delivers frames in any order and keeps delivering  *)
(* model updates and pairs of keep-alive frames in a row.                  *)
(***************************************************************************)
\* A keep-alive frame on its own and a frame parseBuffer rejects.
LiveFrames == {KeepAliveFrame, CorruptFrame}

\* LED updates: pool off, pool on.
UpdateFrames == {MakeFrame(FRAME_TYPE_LEDS, <<0>>), MakeFrame(FRAME_TYPE_LEDS, <<1>>)}

KeepAlivePair == KeepAliveFrame \o KeepAliveFrame

\* A single frame arrives.
LiveDeliver == \E f \in LiveFrames : Deliver(f, TRUE)

\* A model update arrives.
UpdateDeliver == \E f \in UpdateFrames : Deliver(f, TRUE)

\* Two keep-alive frames in a row are in the input buffer.
PairDeliver == \E f \in {KeepAlivePair} : Deliver(f, FALSE)

\* One handler call of main()'s while True loop.
MainCycle == MainRead \/ MainParse \/ MainCheck \/ MainSendModel \/ MainGetCommand

NextLive ==
    \/ MainRead \/ MainParse \/ MainCheck \/ MainSendModel \/ MainGetCommand
    \/ LiveDeliver \/ UpdateDeliver \/ PairDeliver \/ QueueOpen \/ QueueWrite

\* A model update whose timestamp is not older than the low-water mark.
FreshUpdate ==
    MainParse /\ ModelUpdated /\ pm_timestamp' >= last_model_timestamp_seen'

\* The loop never stops (main()'s while True), and the bus keeps delivering
\* pairs of keep-alive frames in a row and fresh model updates: again and
\* again a pair is in the input buffer, and again and again a fresh update
\* is decoded.  Every other frame, whose bytes come in at any pace and which
\* is lost when its first DLE is read before its STX has arrived, and every
\* write of the queue file may happen at any time, any number of times, or
\* never.
SpecLive ==
    /\ Init /\ [][NextLive]_vars
    /\ WF_vars(MainCycle)
    /\ []<><<PairDeliver>>_vars /\ []<><<FreshUpdate>>_vars

(***************************************************************************)
(* getCommand on every kind of request text, called at start-up, with the  *)
(* model observed and no command in flight, and with a command in flight.  *)
(***************************************************************************)
\* main() after an LED frame was decoded and its model was emitted.
IdleProgram(data) ==
    /\ buffer = <<>> /\ buffer_full = FALSE /\ looking_for_start = TRUE
    /\ ready_to_send = FALSE
    /\ sending_message = FALSE /\ keep_alive_count = 0
    /\ parameter = "" /\ target_state = "" /\ confirm = TRUE
    /\ attempts_remaining = 0
    /\ pm_state = DecodeLEDs(data)
    /\ \E order \in {<<0, 0>>, <<1, 0>>, <<0, 1>>} :
        pm_timestamp = order[1] /\ last_model_timestamp_seen = order[2]
    /\ flag_data_changed = FALSE /\ pm_sending_message = FALSE
    /\ queue \in {[exists |-> FALSE, content |-> <<>>],
                  [exists |-> TRUE, content |-> <<>>]}
    /\ ev = Event("sendModel", "none", FALSE, FALSE, FALSE)
    /\ sent = 0 /\ kaSinceArm = 0 /\ marked = 0 /\ completed = <<>>
    /\ modelSeen = "fresh" /\ refused = FALSE
    /\ payload = <<>> /\ wire = <<>> /\ decoded = <<>>

\* Texts of command_queue.txt: well-formed requests; a first line ended by a
\* line feed, by a carriage return, by both; version fields int() accepts
\* (white space, leading zeros, a sign, an underscore, digits outside ASCII,
\* MaxStrDigits digits), a wrong version, version fields int() refuses (a
\* letter, nothing, U+001C, one digit too many); one field, three fields, an
\* empty line, a name with a space, an unknown command; and bytes that are
\* no UTF-8, within the chunks readline decodes and beyond them.
Pool(rest) == Request("pool", rest)
Filler(n) == [i \in 1..n |-> ord("x")]
Zeros(n) == [i \in 1..n |-> ord("0")]
RequestTexts ==
    {Pool(Text(<<"1">>)), Request("service", Text(<<"1">>)),
     Request("spa", Text(<<"1">>)), Request("spillover", Text(<<"1">>)),
     Request("menu", Text(<<"1">>)), Request("menu", Text(<<"1">>) \o <<LF>>),
     Request("pool-spa-spillover", Text(<<"1">>)),
     Pool(Text(<<"1">>) \o <<LF>>), Pool(Text(<<"1">>) \o <<CR>> \o Text(<<"x">>)),
     Pool(Text(<<"1">>) \o <<CR, LF>>), Pool(Text(<<" ", "1">>)),
     Pool(<<12, 49, 160>>), Pool(Text(<<"0", "1">>)), Pool(Text(<<"+", "1">>)),
     Pool(Text(<<"-", "1">>)), Pool(Text(<<"0", "_", "1">>)), Pool(<<1633>>),
     Pool(<<65296, 1633>>), Pool(Zeros(MaxStrDigits - 1) \o Text(<<"1">>)),
     Pool(Zeros(MaxStrDigits) \o Text(<<"1">>)),
     Pool(Text(<<"2">>)), Pool(Text(<<"1", "0">>)), Pool(Text(<<"x">>)),
     Pool(<<28, 49>>), Pool(<<>>), Spelling["pool"],
     Pool(Text(<<"1", ",", "1">>)), <<LF>>,
     Text(<<" ">>) \o Pool(Text(<<"1">>)), Text(<<"b", "o", "g", "u", "s", ",", "1">>),
     Pool(Text(<<"1">>) \o <<InvalidByte>>),
     Pool(Text(<<"1">>) \o <<LF>> \o Filler(ChunkSize - 8) \o <<InvalidByte>>),
     Pool(Text(<<"1">>) \o <<LF>> \o Filler(ChunkSize - 7) \o <<InvalidByte>>),
     Pool(Text(<<"1">>) \o Filler(ChunkSize - 7) \o <<CR, InvalidByte>>)}

InitCommands ==
    /\ \/ InitProgram
       \/ \E data \in LedPayloads : IdleProgram(data)
       \/ \E count \in {0, 1} : ArmedProgram(count)
    /\ pc = "getCommand"
    /\ rx = <<>> /\ arriving = FALSE
    /\ stream0 = [frame |-> <<>>, garbage |-> <<>>]

\* Something writes one of the texts to command_queue.txt.
CommandWrite == \E text \in RequestTexts : Write(text)

NextCommands == QueueOpen \/ CommandWrite \/ MainGetCommand

SpecCommands == InitCommands /\ [][NextCommands]_vars

(***************************************************************************)
(* main() with every button of the front end, started with no command in   *)
(* flight in every indicator state, on a bus that carries keep-alive       *)
(* frames and LED updates.                                                 *)
(***************************************************************************)
\* Frames on the bus: keep-alive and the LED updates all off and service on
\* (the service indicator blinks in one of the states main() starts in).
ToggleFrames ==
    {KeepAliveFrame, MakeFrame(FRAME_TYPE_LEDS, <<0>>),
     MakeFrame(FRAME_TYPE_LEDS, <<8>>)}

ToggleLines ==
    {Request("pool", Text(<<"1">>)), Request("spa", Text(<<"1">>)),
     Request("spillover", Text(<<"1">>)),
     Request("service", Text(<<"1">>) \o <<LF>>),
     Request("pool-spa-spillover", Text(<<"1">>)),
     Request("menu", Text(<<"1">>))}

ToggleDeliver == \E f \in ToggleFrames : Deliver(f, TRUE)

ToggleWrite == \E text \in ToggleLines : Write(text)

NextToggle ==
    \/ MainRead \/ MainParse \/ MainCheck \/ MainSendModel \/ MainGetCommand
    \/ ToggleDeliver \/ QueueOpen \/ ToggleWrite

InitToggle ==
    /\ \E data \in LedPayloads : IdleProgram(data)
    /\ pc = "getCommand"
    /\ rx = <<>> /\ arriving = FALSE
    /\ stream0 = [frame |-> <<>>, garbage |-> <<>>]

SpecToggle == InitToggle /\ [][NextToggle]_vars

(***************************************************************************)
(* Properties.                                                             *)
(***************************************************************************)
\* A step of main() that runs the named handler.
Step(handler) == pc = handler /\ pc' # pc

\* A parseBuffer step that dispatches a validated keep-alive frame.
KeepAliveStep == Step("parseBuffer") /\ ev'.what = "keepalive"

\* A parseBuffer step that calls serialHandler.send.
SendStep == Step("parseBuffer") /\ ev'.sent

\* C1 (heartbeat rule): a confirmation-required command armed by checkCommand
\* is not transmitted on the first validated keep-alive frame dispatched after
\* the arming; it is transmitted on the second consecutive one; a validated
\* non-keep-alive frame in between sets keep_alive_count to 0.
C1_HeartbeatRule ==
    /\ [][(SendStep /\ confirm) => kaSinceArm >= 1]_vars
    /\ [][(KeepAliveStep /\ confirm /\ ready_to_send /\ kaSinceArm = 1)
            => ev'.sent]_vars
    /\ [][(Step("parseBuffer") /\ ev'.what \in {"update", "unknown"})
            => keep_alive_count' = 0]_vars

\* C2 (retry bound): a confirmation-required command whose target state is
\* never observed is abandoned after exactly MAX_SEND_ATTEMPTS transmissions,
\* the machine is then idle, and no command is transmitted more often.
C2_RetryBound ==
    /\ [][(Step("checkCommand") /\ ev'.what = "abandoned")
            => (sent = MAX_SEND_ATTEMPTS /\ sent' = sent /\ ~sending_message')]_vars
    /\ [](sent <= MAX_SEND_ATTEMPTS)

\* A command has just been abandoned after its last transmission.
C2_Witness ==
    /\ ev.op = "checkCommand" /\ ev.what = "abandoned"
    /\ confirm /\ sent = MAX_SEND_ATTEMPTS /\ ~sending_message
    /\ getParameterState(parameter) # target_state

\* C3 (keep-alive frames are the only injection point): serialHandler.send is
\* called only by parseBuffer while it dispatches a validated keep-alive frame
\* with a command in flight (sending_message and ready_to_send), once per such
\* frame, and by no other handler and for no other frame.
C3_OnlyInjectionPoint ==
    [][(pc' # pc /\ ev'.sent)
        => /\ pc = "parseBuffer"
           /\ buffer_full
           /\ Validate(Destuff(buffer)) = "ok"
           /\ Slice(Destuff(buffer), 2, 4) = FRAME_TYPE_KEEPALIVE
           /\ sending_message /\ ready_to_send
           /\ sent' = sent + 1]_vars

\* A command has just been transmitted during a keep-alive dispatch.
C3_Witness ==
    ev.op = "parseBuffer" /\ ev.what = "keepalive" /\ ev.sent /\ sent = 1

\* C4 (single in-flight command): getCommand calls initiateSend only when no
\* command is in flight; called while sending_message is set it leaves the
\* command in flight (parameter, target_state, confirm, attempt budget,
\* ready_to_send) as it is, and the request it has turned away then is
\* rejected: no later call accepts it.
C4_BusyRejected ==
    /\ [][(Step("getCommand") /\ sending_message)
            => (/\ ~ev'.initiated
                /\ UNCHANGED <<parameter, target_state, confirm, attempts_remaining,
                               ready_to_send, sending_message, keep_alive_count>>)]_vars
    /\ [][(Step("getCommand") /\ ev'.initiated)
            => (~sending_message /\ ~refused)]_vars

\* C5 (confirmation): when checkCommand finds the target parameter equal to
\* target_state the machine goes idle and flag_data_changed is raised; the
\* sendModel call that follows emits once and clears the flag; sendModel emits
\* exactly when the flag is set.
C5_Confirmation ==
    /\ [][(Step("checkCommand") /\ ev'.what = "success")
            => (/\ getParameterState(parameter) = target_state
                /\ ~sending_message' /\ ~pm_sending_message'
                /\ flag_data_changed')]_vars
    /\ [][Step("sendModel")
            => (/\ ev'.emitted <=> flag_data_changed
                /\ ~flag_data_changed'
                /\ (ev.what = "success" => ev'.emitted))]_vars

\* The model has just been emitted for the confirmation of a transmitted
\* command.
C5_Witness ==
    /\ ev.op = "sendModel" /\ ev.what = "confirmation" /\ ev.emitted
    /\ ~flag_data_changed /\ ~sending_message /\ confirm /\ sent >= 1

\* C6 (fire-and-forget): a command that needs no confirmation gets its slot
\* request at arming, is transmitted at most once, leaves the machine idle in
\* the step that transmits it, and is never compared against the model.
C6_FireAndForget ==
    /\ [][(Step("getCommand") /\ ev'.initiated /\ ~confirm') => ready_to_send']_vars
    /\ [][(SendStep /\ ~confirm)
            => (~sending_message' /\ ~ready_to_send' /\ sent' = 1)]_vars
    /\ [][(Step("checkCommand") /\ ~confirm) => ev'.what \in {"idle", "awaiting"}]_vars
    /\ [](~confirm => (sent <= 1 /\ (sending_message <=> ready_to_send)))

\* A menu command has just been transmitted and the machine is idle.
C6_Witness ==
    /\ ev.op = "parseBuffer" /\ ev.sent /\ ~confirm /\ parameter = "menu"
    /\ ~sending_message /\ ~ready_to_send /\ sent = 1

\* C10 (heartbeat counter): every validated keep-alive frame dispatched
\* increments keep_alive_count by exactly one, whether a command is armed or
\* not.
C10_EveryKeepAliveIncrements ==
    [][KeepAliveStep => keep_alive_count' = keep_alive_count + 1]_vars

\* What C7 asks of a stream: one frame is marked complete, it is the
\* well-formed frame byte for byte, the framer is seeking a start again once
\* it is marked, and it has been marked by the time its last byte is read.
ExactlyTheFrame ==
    /\ marked <= 1
    /\ (marked = 1 => completed = stream0.frame)
    /\ (buffer_full => (looking_for_start /\ buffer = stream0.frame))
    /\ (Len(rx) <= Len(stream0.garbage) => marked = 1)

C8_BackPressure ==
    /\ [][(ev'.op = "readSerialBus" /\ buffer_full)
            => UNCHANGED <<rx, buffer, buffer_full, looking_for_start>>]_vars
    /\ [][rx' # rx => ~buffer_full]_vars
    /\ [][(ev'.op = "parseBuffer" /\ buffer_full)
            => (buffer = completed /\ ~buffer_full' /\ buffer' = <<>>
                /\ looking_for_start')]_vars
    /\ [](buffer_full => buffer = completed)

\* readSerialBus has just been called with a completed frame still in the
\* buffer and more bytes waiting.
C8_Witness ==
    /\ ev.op = "readSerialBus" /\ ev.what = "held"
    /\ buffer_full /\ rx # <<>> /\ buffer = completed

\* C9 (destuffing inverts stuffing): for every payload, stuffing it and then
\* destuffing the result as parseBuffer does gives the payload back.
C9_DestuffInvertsStuff == pc = "done" => decoded = payload

\* A payload with a literal DLE followed by the escape byte has made the round
\* trip.
C9_Witness ==
    /\ pc = "done" /\ decoded = payload
    /\ Contains2(payload, DLE, NUL) /\ Len(wire) > Len(payload)

\* C11 (invalid command handling): every request getCommand rejects (malformed
\* record, wrong version, unknown command, target parameter in INIT state) is
\* discarded: after the call the command queue is empty, initiateSend was not
\* called, sending_message and ready_to_send are unchanged and the machine is
\* idle.
C11_RejectedIsDiscarded ==
    [][(Step("getCommand") /\ ev'.what \in {"discarded", "init"})
        => (/\ queue'.content = <<>>
            /\ ~ev'.initiated
            /\ UNCHANGED <<sending_message, ready_to_send>>
            /\ ~sending_message')]_vars


\* A call of parseBuffer with a completed frame in the buffer, in either
\* specification of the framer.
ParseCall == ev'.op = "parseBuffer" /\ buffer_full

\* parseBuffer has dispatched the frame to a decoder or to the handshake.
Dispatched(what) == what \in {"keepalive", "update", "unknown"}

C13_RetryWaitsTwoHeartbeats ==
    [][(SendStep /\ confirm /\ sent >= 1) => kaSinceArm >= 1]_vars

\* A decision of checkCommand on the command in flight.
Decision(what) == what \in {"success", "armed", "abandoned"}

\* C14 (confirmation freshness): the Confirmed/Retry decision that follows a
\* transmission is taken only from a model update that arrived after that
\* transmission, never from one that arrived between arming and transmission.
C14_DecisionFromFreshUpdate ==
    [][(Step("checkCommand") /\ Decision(ev'.what) /\ sent >= 1)
        => modelSeen = "fresh"]_vars

\* C15 (lifecycle order): a confirmation-required command reaches Confirmed
\* (the 'Command success' branch of checkCommand) only after it has been
\* transmitted at least once.
C15_ConfirmedAfterSend ==
    [][(Step("checkCommand") /\ ev'.what = "success") => sent >= 1]_vars

\* Types and payloads of the frames a transmitter may put on the stream.
FrameTypes == {FRAME_TYPE_KEEPALIVE, FRAME_TYPE_LEDS, FRAME_TYPE_OTHER}
FramePayloads == SeqsUpTo(StuffBytes, 2)

\* C16 (valid frames are accepted): for every type T and payload P the frame
\* DLE STX stuff(T P checksum) DLE ETX, once completed by the framer, passes
\* parseBuffer's validation and is dispatched with frameType = T and data = P,
\* also when P holds a literal DLE followed by STX or ETX.
C16_ValidFrameAccepted ==
    [][(ParseCall /\ marked = 1)
        => \A T \in FrameTypes, P \in FramePayloads :
             stream0.frame = MakeFrame(T, P)
             => LET frame == Destuff(buffer) IN
                /\ Dispatched(ev'.what)
                /\ Slice(frame, 2, 4) = T
                /\ Slice(frame, 4, Len(frame) - 4) = P]_vars

\* C17 (non-keep-alive dispatch): a validated frame that is no keep-alive sets
\* keep_alive_count to 0 and transmits nothing; when its type is unrecognized
\* the model and the command in flight are left as they are; the framer is
\* reset afterwards.
C17_OtherFrameDispatch ==
    /\ [][(Step("parseBuffer") /\ ev'.what \in {"update", "unknown"})
            => (/\ keep_alive_count' = 0
                /\ ~ev'.sent /\ sent' = sent
                /\ buffer' = <<>> /\ ~buffer_full' /\ looking_for_start')]_vars
    /\ [][(Step("parseBuffer") /\ ev'.what = "unknown")
            => UNCHANGED <<modelVars, clockVars, sending_message, ready_to_send,
                           parameter, target_state, confirm,
                           attempts_remaining>>]_vars

\* A frame of unrecognized type has been dropped while a command held a slot
\* request; the heartbeat count is 0 and the request is still pending.
C17_Witness ==
    /\ ev.op = "parseBuffer" /\ ev.what = "unknown"
    /\ sending_message /\ ready_to_send /\ confirm /\ parameter = "pool"
    /\ keep_alive_count = 0 /\ kaSinceArm = 0 /\ sent = 1

\* Bytes a call of readSerialBus has taken from the transport.
Consumed == Len(rx) - Len(rx')

\* C18 as stated: every call of readSerialBus consumes at most one byte, in
\* seeking-start and in accumulating mode.
C18_AtMostOneByte == [][ev'.op = "readSerialBus" => Consumed <= 1]_vars

\* C18 as amended: a call of readSerialBus consumes no byte when none is
\* waiting or a completed frame is held, one byte in accumulating mode and
\* for a byte other than DLE in seeking-start mode, and in seeking-start mode
\* after a DLE also the byte that follows it, when there is one.
C18_OneByteOrStartPair ==
    [][ev'.op = "readSerialBus"
        => Consumed = IF rx = <<>> \/ buffer_full THEN 0
                      ELSE IF looking_for_start /\ Head(rx) = DLE
                           THEN Min(2, Len(rx))
                           ELSE 1]_vars

\* A call has found the start of the frame: it took DLE and STX in one go.
C18_Witness ==
    /\ ev.op = "readSerialBus" /\ ev.what = "read"
    /\ buffer = <<DLE, STX>> /\ ~looking_for_start
    /\ Len(rx) = Len(stream0.frame) + Len(stream0.garbage) - 2

\* C19 (toggle-target resolution): on acceptance of a confirmation-required
\* command target_state is computed from the parameter's observed state
\* (service: ON to BLINK, BLINK to OFF, otherwise ON; any other parameter: ON
\* to OFF, otherwise ON); parameter and target_state then change only when
\* the next command is accepted.
C19_TargetFixedAtArming ==
    /\ [][(Step("getCommand") /\ ev'.initiated /\ confirm')
            => LET cur == pm_state[parameter'] IN
               /\ parameter' \in Parameters
               /\ (parameter' = "service" /\ cur = "ON") => target_state' = "BLINK"
               /\ (parameter' = "service" /\ cur = "BLINK") => target_state' = "OFF"
               /\ (parameter' = "service" /\ cur \notin {"ON", "BLINK"})
                    => target_state' = "ON"
               /\ (parameter' # "service" /\ cur = "ON") => target_state' = "OFF"
               /\ (parameter' # "service" /\ cur # "ON") => target_state' = "ON"]_vars
    /\ [][(Step("getCommand") /\ ev'.initiated)
            \/ UNCHANGED <<parameter, target_state>>]_vars

\* A toggle of the service button accepted in state ON still asks for BLINK
\* after it was transmitted and the observed state has become OFF.
C19_Witness ==
    /\ sending_message /\ confirm /\ parameter = "service" /\ target_state = "BLINK"
    /\ pm_state["service"] = "OFF" /\ sent >= 1
    /\ ev.op = "checkCommand" /\ ev.what = "armed"

\* C20 (eventual return to idle): on a bus that keeps delivering model updates
\* and pairs of keep-alive frames every accepted command leaves the in-flight
\* state (confirmed, sent once, or abandoned), and a request that getCommand
\* reads with no command in flight is accepted.
C20_EventuallyIdle ==
    /\ sending_message ~> ~sending_message
    /\ [][(Step("getCommand") /\ ~sending_message
            /\ ev'.read = Request("menu", Text(<<"1">>)))
            => (ev'.initiated /\ sending_message' /\ queue'.content = <<>>)]_vars

\* A command has been abandoned after its last transmission went unconfirmed,
\* and the machine is idle again.
C20_Witness ==
    /\ ev.op = "checkCommand" /\ ev.what = "abandoned"
    /\ ~sending_message /\ sent = MAX_SEND_ATTEMPTS /\ modelSeen = "fresh"

=============================================================================
